---- MODULE Spec2Model ----
(***************************************************************************)
(* A model of RunAll_Python2.py (DEPDOSE): the script that reads the       *)
(* nuclide, size and case-parameter inputs, runs the deposition model once *)
(* per case, resolves the dose coefficients of every (nuclide, solubility) *)
(* pair in the nine HDB tables, blends them with the deposition of every   *)
(* size-bin, applies the tissue weighting and writes one table per         *)
(* nuclide-subject-activity-solubility file name.                          *)
(*                                                                         *)
(* Numbers. The script computes in binary floating point; the model keeps  *)
(* every quantity exact, as an integer in a fixed unit:                    *)
(*   - tissue weights in hundredths (0.12 is 12);                          *)
(*   - remainder-tissue masses in tenths of a gram (15.5 is 155);          *)
(*   - the soluble fractions FsB and Fsbb in thousandths (0.993 is 993);   *)
(*   - raw deposition values (ET1, ET2, BB, bb, AI) in a unit u, and the   *)
(*     nine derived compartment fractions in u/1000, so that               *)
(*     B*(0.993-FsB) is B*(993-FsB) and ET1 is ET1*1000;                   *)
(*   - organ doses in coefficient units times u/1000; the twelve           *)
(*     main-tissue doses are kept times 100, because the colon dose is     *)
(*     0.57*ULI + 0.43*LLI, i.e. (57*ULI + 43*LLI)/100;                    *)
(*   - a quotient is a record [num, den]; a sum of quotients that is not   *)
(*     brought to one denominator is the sequence of its terms.            *)
(* A NaN of the script (the sum of a row with an empty row-set) is the     *)
(* field nan = TRUE of a dose vector or record.                            *)
(***************************************************************************)
EXTENDS Integers, Sequences, FiniteSets, TLC

(***************************************************************************)
(* Bounds of the model.                                                    *)
(***************************************************************************)
\* data rows of CaseParams.csv
MaxCases == 2
\* (nuclide, solubility) rows of Nuclides.csv
MaxPairs == 2
\* size rows of SizesInp.csv, hence size-bins of kdep.csv
MaxBins == 2
\* largest organ dose drawn for the weighting on its own
MaxDose == 2
\* largest raw deposition value drawn for the parsing on its own
MaxRaw == 2

(***************************************************************************)
(* Sequence helpers.                                                       *)
(***************************************************************************)
RECURSIVE SumUpTo(_, _)
SumUpTo(s, n) == IF n = 0 THEN 0 ELSE s[n] + SumUpTo(s, n - 1)

\* Python's sum over a vector
SumSeq(s) == SumUpTo(s, Len(s))

RECURSIVE DotUpTo(_, _, _)
DotUpTo(a, b, n) == IF n = 0 THEN 0 ELSE a[n] * b[n] + DotUpTo(a, b, n - 1)

\* np.dot of two vectors of the same length
Dot(a, b) == DotUpTo(a, b, Len(a))

\* the sequences over S of length lo..hi
SeqsOf(S, lo, hi) == UNION {[1..n -> S] : n \in lo..hi}

\* those without a repeated entry
DistinctSeqsOf(S, lo, hi) ==
  {s \in SeqsOf(S, lo, hi) : \A i, j \in 1..Len(s) : i # j => s[i] # s[j]}

(***************************************************************************)
(* Lines 43-53: the script's tables.                                       *)
(***************************************************************************)
activities ==
  [a \in 1..7 |->
     CASE a = 1 -> "Sleep" [] a = 2 -> "Sitting" [] a = 3 -> "LightExercise"
       [] a = 4 -> "HeavyExercise" [] a = 5 -> "StandardWorker"
       [] a = 6 -> "HeavyWorker" [] OTHER -> "MemberOfPublicFullDay"]

subjects ==
  [s \in 1..8 |->
     CASE s = 1 -> "AdultMale" [] s = 2 -> "AdultFemale" [] s = 3 -> "15YearOldMale"
       [] s = 4 -> "15YearOldFemale" [] s = 5 -> "10YearOld" [] s = 6 -> "5YearOld"
       [] s = 7 -> "1YearOld" [] OTHER -> "3MonthOld"]

\* keyed by the subject column as read (a string)
ages ==
  [s \in {"1", "2", "3", "4", "5", "6", "7", "8"} |->
     CASE s = "1" -> 9125 [] s = "2" -> 9125 [] s = "3" -> 5475 [] s = "4" -> 5475
       [] s = "5" -> 3650 [] s = "6" -> 1825 [] s = "7" -> 365 [] OTHER -> 100]

\* int(line[2]), int(line[3]): the digit strings of the subject and activity columns
int(s) ==
  CASE s = "1" -> 1 [] s = "2" -> 2 [] s = "3" -> 3 [] s = "4" -> 4
    [] s = "5" -> 5 [] s = "6" -> 6 [] s = "7" -> 7 [] s = "8" -> 8

\* ICRP 71 remainder-tissue masses per subject, in tenths of a gram; the order is
\* Muscle, Brain, SI-Wall, Kidneys, Pancreas, Spleen, Thymus, Uterus, Adrenals,
\* ET-Region
remainder_tissues_dict_0 ==
  [s \in 1..8 |->
     CASE s \in {1, 2} -> <<280000, 14000, 6400, 3100, 1000, 1800, 200, 800, 140, 155>>
       [] s \in {3, 4} -> <<220000, 14100, 5160, 2480, 649, 1230, 284, 800, 105, 121>>
       [] s = 5 -> <<110000, 13600, 2860, 1730, 300, 774, 314, 42, 72, 71>>
       [] s = 6 -> <<50000, 12600, 1690, 1160, 236, 483, 296, 27, 53, 43>>
       [] s = 7 -> <<25000, 8840, 849, 629, 103, 255, 229, 15, 35, 22>>
       [] OTHER -> <<7600, 3520, 326, 229, 28, 91, 113, 39, 58, 13>>]

\* a plausible slip: the seven tissues after the first five all at 0.05
main_tissues_wt_flat == <<20, 12, 12, 12, 12, 5, 5, 5, 5, 5, 5, 5>>

\* the twelve main-tissue weights, in hundredths
main_tissues_wt == <<20, 12, 12, 12, 12, 5, 5, 5, 5, 5, 1, 1>>

(***************************************************************************)
(* The organs the weighting reads from the blended row (lines 237-252).    *)
(***************************************************************************)
Organs ==
  {"ULI-Wall", "LLI-Wall", "Ovaries", "Testes", "R-Marrow", "Lungs", "St-Wall",
   "UB-Wall", "Breasts", "Liver", "Thymus", "Thyroid", "Skin", "B-Surface",
   "Muscle", "Brain", "SI-Wall", "Kidneys", "Pancreas", "Spleen", "Uterus",
   "Adrenals", "ET-Region"}

\* the columns of remainder_tissues, in order (lines 250-252)
RemainderOrgans ==
  <<"Muscle", "Brain", "SI-Wall", "Kidneys", "Pancreas", "Spleen", "Thymus",
    "Uterus", "Adrenals", "ET-Region">>

\* the columns of main_tissues after gonads, R-Marrow and colon (lines 243-246)
MainOrgansTail ==
  <<"Lungs", "St-Wall", "UB-Wall", "Breasts", "Liver", "Thymus", "Thyroid",
    "Skin", "B-Surface">>

Max2(a, b) == IF a > b THEN a ELSE b

RECURSIVE MaxUpTo(_, _)
MaxUpTo(s, n) == IF n = 1 THEN s[1] ELSE Max2(s[n], MaxUpTo(s, n - 1))

\* Python's max over a non-empty vector of numbers
MaxSeq(s) == MaxUpTo(s, Len(s))

\* np.argmax: the first index of the largest entry (1-based here)
ArgMax(s) ==
  LET m == MaxSeq(s)
  IN  CHOOSE i \in 1..Len(s) : s[i] = m /\ \A j \in 1..(i - 1) : s[j] # m

(***************************************************************************)
(* Lines 175-192: reading kdep.csv.  A line of kdep.csv is                 *)
(* <<AMAD, AMTD, ET1, ET2, B, bb, AI, Total, FsB, Fsbb>> (Python's         *)
(* line[0..9] are line[1..10] here).                                       *)
(***************************************************************************)
\* a plausible slip: the operands of the gel subtraction exchanged
KdepBinSwapped(line) ==
  [AMAD |-> line[1], AMTD |-> line[2],
   ET1 |-> line[3] * 1000, ET2 |-> line[4] * 1000, AI |-> line[7] * 1000,
   BBi_GEL |-> line[5] * (line[9] - 993),
   BBi_SOL |-> line[5] * line[9],
   BBi_SEQ |-> line[5] * 7,
   bbe_GEL |-> line[6] * (line[10] - 993),
   bbe_SOL |-> line[6] * line[10],
   bbe_SEQ |-> line[6] * 7]

\* one pass of the loop body of lines 177-192: the entries appended to AMADs, AMTDs,
\* ET1s, ET2s, AIs and the six derived lists for one line of kdep.csv
KdepBin(line) ==
  [AMAD |-> line[1], AMTD |-> line[2],
   ET1 |-> line[3] * 1000, ET2 |-> line[4] * 1000, AI |-> line[7] * 1000,
   BBi_GEL |-> line[5] * (993 - line[9]),
   BBi_SOL |-> line[5] * line[9],
   BBi_SEQ |-> line[5] * 7,
   bbe_GEL |-> line[6] * (993 - line[10]),
   bbe_SOL |-> line[6] * line[10],
   bbe_SEQ |-> line[6] * 7]

\* n = len(KDEPLines)-4; for line in KDEPLines[1:n]: the lists after the loop, as the
\* sequence line 231 zips them into
ParseKDEP(KDEPLines) ==
  LET n == Len(KDEPLines) - 4
      body == SubSeq(KDEPLines, 2, n)
  IN  [k \in 1..Len(body) |-> KdepBin(body[k])]

\* the nine compartment fractions of a size-bin
Fractions(bin) ==
  <<bin.ET1, bin.ET2, bin.bbe_GEL, bin.bbe_SEQ, bin.bbe_SOL, bin.BBi_SEQ,
    bin.BBi_SOL, bin.BBi_GEL, bin.AI>>

(***************************************************************************)
(* Lines 237-273: the tissue weighting of one size-bin.  A dose vector is  *)
(* [nan, v]: v the dose of every organ, nan the all-NaN row.               *)
(***************************************************************************)
\* a plausible slip: the list of the dictionary itself, not a new array
np_array_alias(list) == [shared |-> TRUE, val |-> list]

\* np.array(list): a new array with the list's values (line 253)
np_array(list) == [shared |-> FALSE, val |-> list]

\* a plausible slip: "not greater" for "less"
StandardFormulationLeq(remainder_tissues, main_tissues) ==
  100 * MaxSeq(remainder_tissues) <= MaxSeq(main_tissues)

\* line 256: max(remainder_tissues)<max(main_tissues); main-tissue doses are kept
\* times 100
StandardFormulation(remainder_tissues, main_tissues) ==
  100 * MaxSeq(remainder_tissues) < MaxSeq(main_tissues)

\* lines 237-246: colon, gonads and the twelve main-tissue doses, times 100
MainTissues(v) ==
  LET colon == v["ULI-Wall"] * 57 + v["LLI-Wall"] * 43
      gonads == Max2(v["Ovaries"], v["Testes"])
  IN  <<100 * gonads, 100 * v["R-Marrow"], colon>>
        \o [i \in 1..Len(MainOrgansTail) |-> 100 * v[MainOrgansTail[i]]]

\* lines 250-252
RemainderTissues(v) == [i \in 1..Len(RemainderOrgans) |-> v[RemainderOrgans[i]]]

\* remainder_masses/remainder_mass: the quotients, entry by entry
MassFractions(remainder_masses, remainder_mass) ==
  [i \in 1..Len(remainder_masses) |-> [num |-> remainder_masses[i], den |-> remainder_mass]]

\* x/0.05 for a sum of quotients x whose denominators are multiples of 20 (line 272)
Over005(x) == [i \in 1..Len(x) |-> [num |-> x[i].num, den |-> x[i].den \div 20]]

\* The names bound by lines 237-273 for a dose vector d and a subject, and the
\* dictionary after them.  With a NaN row every comparison of line 256 is false (the
\* split branch), np.argmax is the first entry and every dose and sum is NaN.
Weight(d, subject, dict) ==
  LET main_tissues == IF d.nan THEN <<>> ELSE MainTissues(d.v)
      remainder_tissues == IF d.nan THEN <<>> ELSE RemainderTissues(d.v)
      main_tissues_eff == IF d.nan THEN <<>>
                          ELSE <<[num |-> Dot(main_tissues, main_tissues_wt), den |-> 10000]>>
      arr == np_array(dict[subject])
      remainder_mass == SumSeq(arr.val)
      standard == ~d.nan /\ StandardFormulation(remainder_tissues, main_tissues)
      i_max_remainder == IF d.nan THEN 1 ELSE ArgMax(remainder_tissues)
      remainder_masses == IF standard THEN arr.val
                          ELSE [arr.val EXCEPT ![i_max_remainder] = 0]
      remainder_mass_fractions == MassFractions(remainder_masses, remainder_mass)
      max_remainder_eff == IF d.nan \/ standard THEN <<>>
                           ELSE <<[num |-> MaxSeq(remainder_tissues), den |-> 40]>>
      remainder_eff ==
        IF d.nan THEN <<>>
        ELSE IF standard
        THEN <<[num |-> Dot(remainder_masses, remainder_tissues), den |-> 20 * remainder_mass]>>
        ELSE <<[num |-> Dot(remainder_masses, remainder_tissues), den |-> 40 * remainder_mass]>>
               \o max_remainder_eff
  IN  [nan |-> d.nan,
       formulation |-> IF standard THEN "standard" ELSE "split",
       main_tissues |-> main_tissues,
       main_tissues_eff |-> main_tissues_eff,
       remainder_tissues |-> remainder_tissues,
       remainder_masses |-> remainder_masses,
       remainder_mass |-> remainder_mass,
       remainder_mass_fractions |-> remainder_mass_fractions,
       i_max_remainder |-> IF standard THEN 0 ELSE i_max_remainder,
       remainder_eff |-> remainder_eff,
       remainder_eq |-> Over005(remainder_eff),
       e50 |-> main_tissues_eff \o remainder_eff,
       dict |-> IF arr.shared THEN [dict EXCEPT ![subject] = remainder_masses] ELSE dict]

(***************************************************************************)
(* The inputs.  The script reads them from files it does not contain; the  *)
(* model draws them from the samples below.                                *)
(***************************************************************************)
\* the nine HDB tables, in the order line 233 multiplies their rows by Fractions
TableOrder ==
  <<"ET1", "ET2", "BBE-GEL", "BBE-SEQ", "BBE-SOL", "BBI-SEQ", "BBI-SOL", "BBI-GEL", "AI">>

Tables == {TableOrder[i] : i \in 1..Len(TableOrder)}

\* the rows of Nuclides.csv the model draws from: <<nuclide, solubility>>
PairSamples == {<<"Cs-137", "F">>, <<"Pu-239", "S">>}

\* the first non-comment line of Nuclides.csv
NuclidesColumns == <<"Nuclide", "Solubility">>

\* the keys <<Nuclide, Age, Class>> an HDB table may hold a row for
Keys == {<<p[1], a, p[2]>> : p \in PairSamples, a \in {9125, 7300, 3650}}

\* The contents of the HDB tables are a set of rows per table.  The model draws the
\* tables with every row present, with one row missing from ET1, with both adult rows
\* of one pair missing from ET1, or with one Pu-239 row missing from another table.
HDBChoices ==
  LET full == [t \in Tables |-> Keys]
      without(t, K) == [full EXCEPT ![t] = Keys \ K]
  IN  {full}
        \cup {without("ET1", {k}) : k \in Keys}
        \cup {without("ET1", {<<p[1], 9125, p[2]>>, <<p[1], 7300, p[2]>>}) : p \in PairSamples}
        \cup {without(t, {k}) : t \in Tables \ {"ET1"}, k \in {q \in Keys : q[1] = "Pu-239"}}

\* The row of a table for a key, a dose coefficient per organ (sample contents of the
\* HDB files): Cs-137 irradiates every organ alike; Pu-239 gives the extrathoracic
\* region its dose from ET1 and ET2 only, bone surface twice and, from AI, the lungs
\* twice the dose of the other organs.
HDBRow(t, key) ==
  IF key[1] = "Cs-137" THEN [o \in Organs |-> 1]
  ELSE [[o \in Organs |-> 1] EXCEPT !["ET-Region"] = IF t \in {"ET1", "ET2"} THEN 3 ELSE 0,
                                    !["B-Surface"] = 2,
                                    !["Lungs"] = IF t = "AI" THEN 2 ELSE 1]

\* the column f of the ET1 row (sample contents), in units of 1e-4
FColumn(key) == IF key[1] = "Cs-137" THEN 10000 ELSE 5

\* the '!' lines of CaseParams.csv
CaseParamsComments == <<<<"! case parameters">>>>

\* the column-header row of CaseParams.csv
CaseParamsColumns ==
  <<"Monodispersed", "NoseBreather", "Subject", "Activity", "Rho", "ShapeFactor",
    "WindSpeed", "AtmPressure", "Chronic", "ICRP130">>

CaseRow(subj, act, rho) == <<"0", "1", subj, act, rho, "1.5", "0", "1", "0", "0">>

\* the data rows of CaseParams.csv the model draws from: two rows of the same subject
\* and activity that differ in density, and a child
RowSamples == {CaseRow("1", "1", "1"), CaseRow("1", "1", "3"), CaseRow("5", "2", "1")}

\* SizesInp.csv: the column-header row and the size rows <<distribution, AMAD>>
SizeRowSamples == <<<<"1", 10>>, <<"1", 1>>, <<"1", 5>>, <<"1", 20>>>>

SizesColumns == <<"Distribution", "Size">>

(***************************************************************************)
(* Lines 163-173: kdep.exe, an external program.  It is a function of its  *)
(* two input files; the model gives it sample depositions: coarse aerosols *)
(* deposit in the extrathoracic airways, fine ones in the bronchial and    *)
(* alveolar regions, and the density of the case row sets the AMTD.        *)
(***************************************************************************)
KdepLine(amad, rho) ==
  LET amtd == (10 * amad) \div rho
  IN  CASE amad = 10 -> <<amad, amtd, 1, 1, 0, 0, 0, 2, 0, 0>>
        [] amad = 1 -> <<amad, amtd, 0, 0, 1, 0, 1, 2, 500, 0>>
        [] amad = 5 -> <<amad, amtd, 0, 1, 0, 1, 0, 2, 0, 500>>
        [] OTHER -> <<amad, amtd, 2, 0, 0, 0, 0, 2, 0, 0>>

KdepColumns == <<"AMAD", "AMTD", "ET1", "ET2", "B", "bb", "AI", "Total", "FsB", "Fsbb">>

\* the four lines that end kdep.csv
KdepTrailer == [i \in 1..4 |-> <<"trailer">>]

\* kdep.csv for input.csv (the '!' lines and one row) and Sizes.csv: a header line, a
\* line per size row, four trailing lines
KDEP(input_lines, sizes_lines) ==
  LET row == input_lines[Len(input_lines)]
      rho == IF row[5] \in {"1", "2", "3"} THEN int(row[5]) ELSE 1
      sizerows == Tail(sizes_lines)
  IN  <<KdepColumns>> \o [k \in 1..Len(sizerows) |-> KdepLine(sizerows[k][2], rho)]
        \o KdepTrailer

(***************************************************************************)
(* Lines 200-221: the lookup of one (nuclide, solubility) pair.            *)
(***************************************************************************)
\* a plausible slip: the retry without the test of the age
LookupAnyAge(hdb, nuclide, a, solubility) ==
  LET first == <<nuclide, a, solubility>>
      retried == first \notin hdb["ET1"]
      q == IF retried THEN <<nuclide, 7300, solubility>> ELSE first
  IN  [retried |-> retried, queryline |-> q, found |-> q \in hdb["ET1"]]

\* queryline is the key <<Nuclide, Age, Class>> of the pandas query; found is
\* len(dfET1Eq) != 0 at line 208
Lookup(hdb, nuclide, a, solubility) ==
  LET first == <<nuclide, a, solubility>>
      retried == a = 9125 /\ first \notin hdb["ET1"]
      q == IF retried THEN <<nuclide, 7300, solubility>> ELSE first
  IN  [retried |-> retried, queryline |-> q, found |-> q \in hdb["ET1"]]

\* a plausible slip: the failing pair skipped and the loop continued
exit_skipped(next) == next

\* exit() at line 210: the interpreter stops whatever would have come next
exit(next) == "exited"

(***************************************************************************)
(* Line 233: the blend of the nine rows with the fractions of a size-bin.  *)
(* pandas aligns the rows of the nine frames; an empty frame leaves every  *)
(* entry of the sum NaN.                                                   *)
(***************************************************************************)
Blend(hdb, queryline, bin) ==
  IF \E t \in Tables : queryline \notin hdb[t]
  THEN [nan |-> TRUE, v |-> [o \in Organs |-> 0]]
  ELSE LET rows == [i \in 1..Len(TableOrder) |-> HDBRow(TableOrder[i], queryline)]
           fr == Fractions(bin)
       IN  [nan |-> FALSE,
            v |-> [o \in Organs |-> SumSeq([i \in 1..Len(rows) |-> rows[i][o] * fr[i]])]]

\* line 278
Filename(nuclide, person, act, solubility) ==
  nuclide \o "-" \o person \o "-" \o act \o "-" \o solubility \o ".csv"

\* line 274: the row appended to data
OutputRow(bin, nuclide, person, act, solubility, f, w) ==
  [AMAD |-> bin.AMAD, AMTD |-> bin.AMTD, Nuclide |-> nuclide, Subject |-> person,
   Activity |-> act, Solubility |-> solubility, f1 |-> f, nan |-> w.nan,
   CED |-> w.e50, main_tissues |-> w.main_tissues,
   remainder_tissues |-> w.remainder_tissues, Remainder |-> w.remainder_eq]

\* Lines 231-275: the loop over the size-bins from bin k on, for the resolved
\* queryline.  acc holds data, the formulations printed, the dictionary and the names
\* the last pass bound.
RECURSIVE SizeBinLoop(_, _, _, _, _, _, _)
SizeBinLoop(hdb, queryline, bins, k, c, pair, acc) ==
  IF k > Len(bins) THEN acc
  ELSE LET d == Blend(hdb, queryline, bins[k])
           w == Weight(d, c.subject, acc.dict)
           row == OutputRow(bins[k], pair[1], subjects[c.subject], activities[c.activity],
                            pair[2], FColumn(queryline), w)
       IN  SizeBinLoop(hdb, queryline, bins, k + 1, c, pair,
                       [data |-> Append(acc.data, row),
                        printed |-> Append(acc.printed, <<"Remainder formulation", w.formulation>>),
                        dict |-> w.dict,
                        dfSumEq |-> d,
                        w |-> w])

(***************************************************************************)
(* The state: the script's global names, its files and its standard        *)
(* output.                                                                 *)
(***************************************************************************)
VARIABLES
  pc,                      \* where the script is: "case", "pair", "done", "exited"
  nuclides, solubilities,  \* lines 58-73
  SizesLines,              \* lines 76-84
  CaseParamsHeader,        \* the '!' lines of CaseParams.csv
  CaseParamsLines,         \* its other lines, the column-header row first
  subject, activity, age,  \* the lists of lines 103-114
  HDB,                     \* per table, the keys it holds a row for
  remainder_tissues_dict,
  ci,                      \* the passes of the case loop begun
  pj,                      \* the passes of the pair loop begun in this case
  cur,                     \* the names line 145 binds: subject, activity, age, CaseParamsLine
  input_csv,               \* KDEP/InputFiles/input.csv
  KDEPLines,               \* the lines of kdep.csv as read
  bins,                    \* AMADs ... AIs after line 192
  queryline,
  data,
  files,                   \* OutputFiles: file name -> rows
  stdout,                  \* the prints the model keeps, in order
  dfSumEq,
  w                        \* the names lines 237-273 bound last

vars ==
  <<pc, nuclides, solubilities, SizesLines, CaseParamsHeader, CaseParamsLines, subject,
    activity, age, HDB, remainder_tissues_dict, ci, pj, cur, input_csv, KDEPLines, bins,
    queryline, data, files, stdout, dfSumEq, w>>

\* a name not bound yet
Unbound == [formulation |-> "unbound"]

\* the names of a Weight result without the dictionary
Locals(r) == [n \in DOMAIN r \ {"dict"} |-> r[n]]

\* lines 103-114: the lists parsed from CaseParamsLines[1:]
ParsedCases(lines) ==
  LET rows == Tail(lines)
  IN  [subject |-> [k \in 1..Len(rows) |-> int(rows[k][3])],
       activity |-> [k \in 1..Len(rows) |-> int(rows[k][4])],
       age |-> [k \in 1..Len(rows) |-> ages[rows[k][3]]]]

Min2(a, b) == IF a < b THEN a ELSE b

\* line 145: zip(subject,activity,age,CaseParamsLines), as long as its shortest list
Zip(subj, act, ag, lines) ==
  [k \in 1..Min2(Min2(Len(subj), Len(act)), Min2(Len(ag), Len(lines))) |->
     [subject |-> subj[k], activity |-> act[k], age |-> ag[k], CaseParamsLine |-> lines[k]]]

\* The state after line 132, the inputs read: the script is about to enter the case
\* loop.  Every input file holds its column-header row and at least one further row
\* (with no size row the size-bin loop would leave person and act of line 278 unbound);
\* the data rows of CaseParams.csv are distinct; names carry no blanks for strip().
Init ==
  /\ \E pairs \in SeqsOf(PairSamples, 1, MaxPairs) :
       LET NuclideLines == <<NuclidesColumns>> \o pairs
       IN  /\ nuclides = Tail([k \in 1..Len(NuclideLines) |-> NuclideLines[k][1]])
           /\ solubilities = Tail([k \in 1..Len(NuclideLines) |-> NuclideLines[k][2]])
  /\ \E n \in 1..MaxBins : SizesLines = <<SizesColumns>> \o SubSeq(SizeRowSamples, 1, n)
  /\ CaseParamsHeader = CaseParamsComments
  /\ \E rows \in DistinctSeqsOf(RowSamples, 1, MaxCases) :
       /\ CaseParamsLines = <<CaseParamsColumns>> \o rows
       /\ subject = ParsedCases(CaseParamsLines).subject
       /\ activity = ParsedCases(CaseParamsLines).activity
       /\ age = ParsedCases(CaseParamsLines).age
  /\ HDB \in HDBChoices
  /\ remainder_tissues_dict = remainder_tissues_dict_0
  /\ pc = "case"
  /\ ci = 0
  /\ pj = 0
  /\ cur = <<>>
  /\ input_csv = <<>>
  /\ KDEPLines = <<>>
  /\ bins = <<>>
  /\ queryline = <<>>
  /\ data = <<>>
  /\ files = [fn \in {} |-> <<>>]
  /\ stdout = <<>>
  /\ dfSumEq = <<>>
  /\ w = Unbound

Cases == Zip(subject, activity, age, CaseParamsLines)

Pairs == [k \in 1..Min2(Len(nuclides), Len(solubilities)) |-> <<nuclides[k], solubilities[k]>>]

\* where the script is after pass j of the pair loop of case i
After(i, j) ==
  IF j < Len(Pairs) THEN "pair" ELSE IF i < Len(Cases) THEN "case" ELSE "done"

\* Lines 145-192: a pass of the case loop up to the pair loop: input.csv is written,
\* kdep.exe runs, kdep.csv is read.
StartCase ==
  /\ pc = "case"
  /\ ci < Len(Cases)
  /\ LET c == Cases[ci + 1]
     IN  /\ cur' = c
         /\ stdout' = stdout \o <<<<"case", c.subject, c.activity, c.age>>,
                                  <<"line", c.CaseParamsLine>>>>
         /\ input_csv' = CaseParamsHeader \o <<c.CaseParamsLine>>
  /\ KDEPLines' = KDEP(input_csv', SizesLines)
  /\ bins' = ParseKDEP(KDEPLines')
  /\ ci' = ci + 1
  /\ pj' = 0
  /\ pc' = "pair"
  /\ UNCHANGED <<nuclides, solubilities, SizesLines, CaseParamsHeader, CaseParamsLines,
                 subject, activity, age, HDB, remainder_tissues_dict, queryline, data,
                 files, dfSumEq, w>>

\* the prints of lines 198-205 for a lookup
LookupPrints(pair, L) ==
  <<<<"Calculating Effective Dose", pair[1], pair[2]>>>>
    \o (IF L.retried THEN <<<<"Age not found, trying 7300">>>> ELSE <<>>)

\* Lines 195-281 when the ET1 row is found: the lookup, the loop over the size-bins
\* and the table written under the file name of the pair.
PairFound ==
  /\ pc = "pair"
  /\ pj < Len(Pairs)
  /\ LET pair == Pairs[pj + 1]
         L == Lookup(HDB, pair[1], cur.age, pair[2])
         fn == Filename(pair[1], subjects[cur.subject], activities[cur.activity], pair[2])
     IN  /\ L.found
         /\ \E r \in {SizeBinLoop(HDB, L.queryline, bins, 1, cur, pair,
                                   [data |-> <<>>, printed |-> <<>>,
                                    dict |-> remainder_tissues_dict,
                                    dfSumEq |-> dfSumEq, w |-> w])} :
              /\ stdout' = stdout \o LookupPrints(pair, L) \o r.printed
              /\ data' = r.data
              /\ remainder_tissues_dict' = r.dict
              /\ dfSumEq' = r.dfSumEq
              /\ w' = Locals(r.w)
              /\ files' = [f \in DOMAIN files \cup {fn} |->
                             IF f = fn THEN r.data ELSE files[f]]
         /\ queryline' = L.queryline
  /\ pj' = pj + 1
  /\ pc' = After(ci, pj')
  /\ UNCHANGED <<nuclides, solubilities, SizesLines, CaseParamsHeader, CaseParamsLines,
                 subject, activity, age, HDB, ci, cur, input_csv, KDEPLines, bins>>

\* Lines 195-210 when no ET1 row is found: the error is printed and the script exits.
PairNotFound ==
  /\ pc = "pair"
  /\ pj < Len(Pairs)
  /\ LET pair == Pairs[pj + 1]
         L == Lookup(HDB, pair[1], cur.age, pair[2])
     IN  /\ ~L.found
         /\ queryline' = L.queryline
         /\ stdout' = stdout \o LookupPrints(pair, L)
                        \o <<<<"Error: entry not found. Queryline = ", L.queryline>>>>
  /\ pj' = pj + 1
  /\ pc' = exit(After(ci, pj'))
  /\ UNCHANGED <<nuclides, solubilities, SizesLines, CaseParamsHeader, CaseParamsLines,
                 subject, activity, age, HDB, remainder_tissues_dict, ci, cur, input_csv,
                 KDEPLines, bins, data, files, dfSumEq, w>>

Next == StartCase \/ PairFound \/ PairNotFound

Spec == Init /\ [][Next]_vars

(***************************************************************************)
(* The weighting on its own: lines 237-273 applied to dose vectors drawn   *)
(* from a bounded set, for a subject drawn at the start.                   *)
(***************************************************************************)
\* every organ at one dose, one organ at another; and the NaN row
DoseSamples ==
  {[nan |-> TRUE, v |-> [o \in Organs |-> 0]]}
    \cup {[nan |-> FALSE, v |-> [[o \in Organs |-> b] EXCEPT ![e] = h]] :
            b \in 0..MaxDose, e \in Organs, h \in 0..MaxDose}

InitWeight ==
  /\ pc = "weight"
  /\ \E s \in DOMAIN subjects :
       cur = [subject |-> s, activity |-> 1, age |-> ages[ToString(s)], CaseParamsLine |-> <<>>]
  /\ remainder_tissues_dict = remainder_tissues_dict_0
  /\ nuclides = <<>>
  /\ solubilities = <<>>
  /\ SizesLines = <<>>
  /\ CaseParamsHeader = <<>>
  /\ CaseParamsLines = <<>>
  /\ subject = <<>>
  /\ activity = <<>>
  /\ age = <<>>
  /\ HDB = [t \in Tables |-> Keys]
  /\ ci = 0
  /\ pj = 0
  /\ input_csv = <<>>
  /\ KDEPLines = <<>>
  /\ bins = <<>>
  /\ queryline = <<>>
  /\ data = <<>>
  /\ files = [fn \in {} |-> <<>>]
  /\ stdout = <<>>
  /\ dfSumEq = <<>>
  /\ w = Unbound

\* lines 237-273 for one blended row
WeightBin ==
  /\ pc = "weight"
  /\ \E d \in DoseSamples :
       \E r \in {Weight(d, cur.subject, remainder_tissues_dict)} :
         /\ dfSumEq' = d
         /\ w' = Locals(r)
         /\ remainder_tissues_dict' = r.dict
  /\ UNCHANGED <<pc, nuclides, solubilities, SizesLines, CaseParamsHeader, CaseParamsLines,
                 subject, activity, age, HDB, ci, pj, cur, input_csv, KDEPLines, bins,
                 queryline, data, files, stdout>>

NextWeight == WeightBin

SpecWeight == InitWeight /\ [][NextWeight]_vars

(***************************************************************************)
(* The reading of kdep.csv on its own: lines 175-192 applied to a file     *)
(* with one size-bin whose values are drawn from bounded sets.             *)
(***************************************************************************)
\* FsB and Fsbb, in thousandths: the ends of [0, 1], the middle, and 0.993 with its
\* neighbours
FsSamples == {0, 500, 992, 993, 994, 1000}

RawLines ==
  {<<1, 1, et1, et2, B, bb, AI, et1 + et2 + B + bb + AI, FsB, Fsbb>> :
     et1 \in 0..MaxRaw, et2 \in 0..MaxRaw, B \in 0..MaxRaw, bb \in 0..MaxRaw,
     AI \in 0..MaxRaw, FsB \in FsSamples, Fsbb \in FsSamples}

InitDep ==
  /\ pc = "kdep"
  /\ \E line \in RawLines : KDEPLines = <<KdepColumns, line>> \o KdepTrailer
  /\ bins = <<>>
  /\ cur = <<>>
  /\ remainder_tissues_dict = remainder_tissues_dict_0
  /\ nuclides = <<>>
  /\ solubilities = <<>>
  /\ SizesLines = <<>>
  /\ CaseParamsHeader = <<>>
  /\ CaseParamsLines = <<>>
  /\ subject = <<>>
  /\ activity = <<>>
  /\ age = <<>>
  /\ HDB = [t \in Tables |-> Keys]
  /\ ci = 0
  /\ pj = 0
  /\ input_csv = <<>>
  /\ queryline = <<>>
  /\ data = <<>>
  /\ files = [fn \in {} |-> <<>>]
  /\ stdout = <<>>
  /\ dfSumEq = <<>>
  /\ w = Unbound

\* lines 175-192
ReadKdep ==
  /\ pc = "kdep"
  /\ bins' = ParseKDEP(KDEPLines)
  /\ pc' = "parsed"
  /\ UNCHANGED <<nuclides, solubilities, SizesLines, CaseParamsHeader, CaseParamsLines,
                 subject, activity, age, HDB, remainder_tissues_dict, ci, pj, cur,
                 input_csv, KDEPLines, queryline, data, files, stdout, dfSumEq, w>>

NextDep == ReadKdep

SpecDep == InitDep /\ [][NextDep]_vars

(***************************************************************************)
(* What the claims read from the state.                                    *)
(***************************************************************************)
ErrorTag == "Error: entry not found. Queryline = "

ErrorPrints == {k \in 1..Len(stdout) : stdout[k][1] = ErrorTag}

\* the print of lines 198-199 that opens the last pass of the pair loop
LastCalculating ==
  CHOOSE k \in 1..Len(stdout) :
    /\ stdout[k][1] = "Calculating Effective Dose"
    /\ \A m \in (k + 1)..Len(stdout) : stdout[m][1] # "Calculating Effective Dose"

RetryPrinted ==
  /\ LastCalculating < Len(stdout)
  /\ stdout[LastCalculating + 1] = <<"Age not found, trying 7300">>

\* the last pass of the pair loop ran its size-bin loop and wrote its table
JustWritten == stdout # <<>> /\ stdout[Len(stdout)][1] = "Remainder formulation"

\* the formulation printed for row k of data, when JustWritten
PrintedFor(k) == stdout[Len(stdout) - Len(data) + k][2]

\* the size rows of SizesInp.csv
NBins == Len(SizesLines) - 1

\* the data rows of CaseParams.csv
DataRows == Tail(CaseParamsLines)

(***************************************************************************)
(* C1                                                                      *)
(***************************************************************************)
\* C1 (as amended): when the lookup of a pair finds no ET1 row, the script prints the
\* error with the key it queried and stops there: the error is the only one and the
\* last thing printed, so no later pair and no later case is begun; and the script
\* stops in no other way.
C1_ExitAtFailure ==
  /\ ErrorPrints # {} =>
       /\ pc = "exited"
       /\ ErrorPrints = {Len(stdout)}
       /\ stdout[Len(stdout)][2] = queryline
       /\ queryline \notin HDB["ET1"]
  /\ pc = "exited" => ErrorPrints # {}

\* C1 witness: the script has exited at a pair while a later pair of the same case,
\* whose lookup would succeed, is left unprocessed.
C1_Witness ==
  /\ pc = "exited"
  /\ pj < Len(Pairs)
  /\ Lookup(HDB, Pairs[pj + 1][1], cur.age, Pairs[pj + 1][2]).found

\* C1 (as claimed): once the script has stopped, every pair of every case whose lookup
\* succeeds has its output table, whatever failed before it.
C1_OthersContinue ==
  pc \in {"done", "exited"} =>
    \A i \in 1..Len(Cases), j \in 1..Len(Pairs) :
      Lookup(HDB, Pairs[j][1], Cases[i].age, Pairs[j][2]).found =>
        Filename(Pairs[j][1], subjects[Cases[i].subject], activities[Cases[i].activity],
                 Pairs[j][2]) \in DOMAIN files

(***************************************************************************)
(* C2                                                                      *)
(***************************************************************************)
\* C2 (as claimed): in the split branch the mass of the highest-dose remainder tissue
\* is zero, every mass fraction is the tissue's mass over the sum of the nine remaining
\* masses (so the fractions sum to 1), the nine tissues contribute 0.025 times the sum
\* of fraction times dose and the highest-dose tissue 0.025 times its own dose.
C2_SplitRenormalized ==
  (pc = "weight" /\ w.formulation = "split" /\ ~w.nan) =>
    LET rest == SumSeq(w.remainder_masses)
        i == w.i_max_remainder
    IN  /\ w.remainder_masses[i] = 0
        /\ w.remainder_tissues[i] = MaxSeq(w.remainder_tissues)
        /\ \A k \in 1..Len(w.remainder_mass_fractions) :
             w.remainder_mass_fractions[k] = [num |-> w.remainder_masses[k], den |-> rest]
        /\ SumSeq([k \in 1..Len(w.remainder_mass_fractions) |->
                     w.remainder_mass_fractions[k].num]) = w.remainder_mass_fractions[1].den
        /\ w.remainder_eff =
             <<[num |-> Dot(w.remainder_masses, w.remainder_tissues), den |-> 40 * rest],
               [num |-> w.remainder_tissues[i], den |-> 40]>>

(***************************************************************************)
(* C3                                                                      *)
(***************************************************************************)
\* the twelve main-tissue doses of the last weighting are all d (times 100)
UniformMain(d) ==
  /\ w.formulation # "unbound"
  /\ ~w.nan
  /\ \A k \in 1..Len(w.main_tissues) : w.main_tissues[k] = 100 * d

\* C3 (as amended): the twelve main-tissue weights sum to 0.95, so that twelve main
\* tissues at one dose d give a main-tissue effective dose of 0.95 d.
C3_WeightsSumTo095 ==
  /\ Len(main_tissues_wt) = 12
  /\ SumSeq(main_tissues_wt) = 95
  /\ \A d \in 0..(MaxDose + 1) :
       UniformMain(d) => w.main_tissues_eff = <<[num |-> 95 * 100 * d, den |-> 10000]>>

\* C3 witness: a weighting of twelve main tissues at one positive dose.
C3_Witness == pc = "weight" /\ \E d \in 1..MaxDose : UniformMain(d)

\* C3 (as claimed): the twelve main-tissue weights sum to 0.60, so that twelve main
\* tissues at one dose d give a main-tissue effective dose of 0.60 d.
C3_WeightsSumTo060 ==
  (pc = "weight" /\ w.formulation # "unbound") =>
    /\ SumSeq(main_tissues_wt) = 60
    /\ \A d \in 0..(MaxDose + 1) :
         UniformMain(d) => w.main_tissues_eff = <<[num |-> 60 * 100 * d, den |-> 10000]>>

(***************************************************************************)
(* C4                                                                      *)
(***************************************************************************)
\* C4: after every lookup, the retry with age 7300 was made exactly when the case's
\* age is 9125 and ET1 has no row for the case's own age; for age 9125 with no row at
\* 9125 and a row at 7300 the script goes on, with the 7300 key as the key of all the
\* queries; for any other age with no row the script exits without a retry.
C4_FallbackOnlyForAdult ==
  (pj >= 1 /\ pc \in {"pair", "case", "done", "exited"}) =>
    LET pair == Pairs[pj]
        own == <<pair[1], cur.age, pair[2]>>
        adult2 == <<pair[1], 7300, pair[2]>>
    IN  /\ RetryPrinted <=> (cur.age = 9125 /\ own \notin HDB["ET1"])
        /\ (cur.age = 9125 /\ own \notin HDB["ET1"] /\ adult2 \in HDB["ET1"]) =>
             (pc # "exited" /\ queryline = adult2 /\ JustWritten)
        /\ (cur.age # 9125 /\ own \notin HDB["ET1"]) =>
             (pc = "exited" /\ queryline = own /\ ~RetryPrinted)
        /\ own \in HDB["ET1"] => (pc # "exited" /\ queryline = own)

\* C4 witness: a case of age 9125, no ET1 row at 9125, a row at 7300, and the pair
\* processed with the 7300 key after the retry.
C4_Witness ==
  /\ pj >= 1
  /\ pc \in {"pair", "case", "done"}
  /\ cur.age = 9125
  /\ <<Pairs[pj][1], 9125, Pairs[pj][2]>> \notin HDB["ET1"]
  /\ queryline = <<Pairs[pj][1], 7300, Pairs[pj][2]>>
  /\ RetryPrinted
  /\ JustWritten

(***************************************************************************)
(* C5                                                                      *)
(***************************************************************************)
\* C5 (as claimed): the size-bin loop is run, and a table written, only for a key that
\* every one of the nine tables holds a row for; no row of a table is NaN.
C5_AllNineNonEmpty ==
  JustWritten =>
    /\ \A t \in Tables : queryline \in HDB[t]
    /\ \A k \in 1..Len(data) : ~data[k].nan

(***************************************************************************)
(* C6                                                                      *)
(***************************************************************************)
\* C6: for every size-bin of the pair just processed, the standard formulation was
\* printed exactly when the largest remainder-tissue dose of that size-bin's row is
\* strictly less than its largest main-tissue dose, and the split formulation
\* otherwise (equality and NaN included), whatever was printed for the bins before.
C6_BranchPerSizeBin ==
  JustWritten =>
    /\ Len(data) = Len(bins)
    /\ \A k \in 1..Len(data) :
         /\ PrintedFor(k) \in {"standard", "split"}
         /\ PrintedFor(k) = "standard" <=>
              (/\ ~data[k].nan
               /\ \E m \in 1..12 : \A r \in 1..10 :
                    100 * data[k].remainder_tissues[r] < data[k].main_tissues[m])

\* C6 witness: a pair whose first size-bin took the split branch and whose second took
\* the standard one.
C6_Witness ==
  /\ JustWritten
  /\ Len(data) >= 2
  /\ PrintedFor(1) = "split"
  /\ PrintedFor(2) = "standard"

(***************************************************************************)
(* C7                                                                      *)
(***************************************************************************)
\* C7 (as claimed): after a run in which every lookup succeeded, the table of each
\* group holds one row per size-bin of every case of the group, in size-bin order.
C7_AllRecordsKept ==
  pc = "done" =>
    \A i \in 1..Len(Cases), j \in 1..Len(Pairs) :
      LET fn == Filename(Pairs[j][1], subjects[Cases[i].subject],
                         activities[Cases[i].activity], Pairs[j][2])
          group == {m \in 1..Len(Cases) :
                      Cases[m].subject = Cases[i].subject
                        /\ Cases[m].activity = Cases[i].activity}
      IN  /\ fn \in DOMAIN files
          /\ Len(files[fn]) = NBins * Cardinality(group)
          /\ \A k \in 1..Len(files[fn]) :
               files[fn][k].AMAD = SizesLines[1 + ((k - 1) % NBins) + 1][2]

(***************************************************************************)
(* C8                                                                      *)
(***************************************************************************)
NonNegative(bin) == \A k \in 1..9 : Fractions(bin)[k] >= 0

\* the raw line of size-bin k of kdep.csv
RawLine(k) == KDEPLines[k + 1]

\* C8 (as amended): for a size-bin whose raw values are non-negative and whose FsB
\* and Fsbb are at most 0.993, the nine compartment fractions are non-negative.
C8_NonNegativeUpTo993 ==
  pc = "parsed" =>
    \A k \in 1..Len(bins) :
      (RawLine(k)[9] <= 993 /\ RawLine(k)[10] <= 993) => NonNegative(bins[k])

\* C8 witness: a size-bin with a positive bronchial deposition and FsB at 0.993.
C8_Witness ==
  /\ pc = "parsed"
  /\ Len(bins) = 1
  /\ RawLine(1)[5] > 0
  /\ RawLine(1)[9] = 993
  /\ bins[1].BBi_GEL = 0

\* C8 (as claimed): for a size-bin whose raw values are non-negative, FsB and Fsbb
\* anywhere in [0, 1], the nine compartment fractions are non-negative.
C8_NonNegative ==
  pc = "parsed" => \A k \in 1..Len(bins) : NonNegative(bins[k])

(***************************************************************************)
(* C9                                                                      *)
(***************************************************************************)
\* C9 (as claimed): in pass i of the case loop the row written to input.csv is data
\* row i of CaseParams.csv, the row the pass's subject, activity and age were parsed
\* from; and when the loop is over every data row has been written once.
C9_RowPairing ==
  /\ (ci >= 1 /\ pc \in {"pair", "case", "done", "exited"}) =>
       /\ cur.CaseParamsLine = DataRows[ci]
       /\ input_csv = CaseParamsHeader \o <<DataRows[ci]>>
       /\ cur.CaseParamsLine # CaseParamsLines[1]
       /\ cur.subject = int(cur.CaseParamsLine[3])
  /\ pc = "done" => ci = Len(DataRows)

(***************************************************************************)
(* C10                                                                     *)
(***************************************************************************)
\* C10: the dictionary of remainder-tissue masses always holds its initial values.
C10_DictUnchanged == remainder_tissues_dict = remainder_tissues_dict_0

\* C10 witness: a split branch was taken and a later size-bin, pair or case was
\* processed after it.
C10_Witness ==
  /\ pc \in {"pair", "case", "done", "exited"}
  /\ \E k \in 1..Len(stdout) :
       /\ stdout[k] = <<"Remainder formulation", "split">>
       /\ k < Len(stdout)
  /\ C10_DictUnchanged

====
